---- MODULE Spec2Model ----
(***************************************************************************)
(* A model of the pymtl connectivity/value graph (vgen/rtler_vbase.py) and *)
(* of the simulation kernel (pymtl/simulate.py).                           *)
(*                                                                         *)
(* SpecConn drives the port/slice/constant connectivity operations and     *)
(* the port and slice value setters; SpecSim drives the event queue and    *)
(* the two-phase cycle of SimulationTool over small registration tables.   *)
(***************************************************************************)
EXTENDS Integers, Sequences, FiniteSets, TLC

\* ---------------------------------------------------------------- bounds

\* Largest port width a test bench constructs.
MaxWidth == 2
\* Largest integer a test bench writes to a port or connects as a constant.
MaxVal == 3
\* Number of connect() calls and value writes a test bench makes.
MaxOps == 2

\* ------------------------------------------------- connectivity: the state

VARIABLES
  width,        \* VerilogPort.width, per port (set by the constructor)
  port_value,   \* VerilogPort._value: None, a ValueNode or a VerilogSlice
  connections,  \* VerilogPort.connections, per port
  vnodes,       \* every ValueNode allocated so far: [width, value]
  last,         \* the last operation called and how it ended
  nops          \* connect() calls and value writes made so far

connVars == <<width, port_value, connections, vnodes, last, nops>>

\* --------------------------------------------- simulation kernel: the state

VARIABLES
  design,           \* the model the SimulationTool was constructed on
  node,             \* ValueNode._value of every net of the model
  vnode_callbacks,  \* SimulationTool.vnode_callbacks: net -> functions
  event_queue,      \* SimulationTool.event_queue (a deque; index 1 is its left end)
  posedge_clk_fns,  \* SimulationTool.posedge_clk_fns
  rnode_callbacks,  \* SimulationTool.rnode_callbacks: the registers staged
  num_cycles,       \* SimulationTool.num_cycles
  pc,               \* where the kernel is inside cycle() / eval_combinational()
  pi,               \* index of the next function of the posedge loop
  rst,              \* 0, or which cycle() of reset() is running
  hist              \* bookkeeping of the run, read by the properties only

simVars == <<design, node, vnode_callbacks, event_queue, posedge_clk_fns,
             rnode_callbacks, num_cycles, pc, pi, rst, hist>>

\* ------------------------------------------------------ elaboration: the state

VARIABLES
  mods,      \* per VerilogModule: the attributes elaborate() assigns
  attached,  \* the nets whose ValueNode.sim refers to a SimulationTool
  elast,     \* the last elaborate() or SimulationTool() call and how it ended
  eops       \* elaborate() and SimulationTool() calls made so far

elabVars == <<mods, attached, elast, eops>>

vars == <<connVars, simVars, elabVars>>

Ports == {"p1", "p2", "p3"}

\* Python's None where an int is expected (VerilogPort.value of an
\* unconnected port).
PyNone == -1

\* What VerilogPort._value refers to.
NoRef == [kind |-> "none", id |-> 0, parent |-> "", addr |-> 0]
NetRef(n) == [kind |-> "net", id |-> n, parent |-> "", addr |-> 0]
SliceRef(p, a) == [kind |-> "slice", id |-> 0, parent |-> p, addr |-> a]

\* Python truthiness of VerilogPort._value: None is false, an object is true.
Truthy(r) == r.kind # "none"

\* Entries of a connections list.
PortEnd(p) == [kind |-> "port", port |-> p, addr |-> 0, value |-> 0]
SliceEnd(p, a) == [kind |-> "slice", port |-> p, addr |-> a, value |-> 0]
VerilogConstant(v, w) == [kind |-> "constant", port |-> "", addr |-> w, value |-> v]

\* ValueNode(width, value=0)
ValueNode(w, v) == [width |-> w, value |-> v]

\* ------------------------------------------------------ integer bit helpers

RECURSIVE Pow2(_)
Pow2(n) == IF n = 0 THEN 1 ELSE 2 * Pow2(n - 1)

Shl(v, n) == v * Pow2(n)
Shr(v, n) == v \div Pow2(n)

RECURSIVE BitOr(_, _)
BitOr(a, b) ==
  IF a = 0 THEN b
  ELSE IF b = 0 THEN a
  ELSE (IF a % 2 = 1 \/ b % 2 = 1 THEN 1 ELSE 0) + 2 * BitOr(a \div 2, b \div 2)

RECURSIVE BitAnd(_, _)
BitAnd(a, b) ==
  IF a = 0 \/ b = 0 THEN 0
  ELSE (IF a % 2 = 1 /\ b % 2 = 1 THEN 1 ELSE 0) + 2 * BitAnd(a \div 2, b \div 2)

Bit(v, i) == Shr(v, i) % 2

\* ------------------------------------------------ reading and writing values

Ret(v) == [exc |-> "none", val |-> v]
Raise(e) == [exc |-> e, val |-> PyNone]

\* Depth after which a chain of _value references can only be a cycle: the
\* interpreter then raises "maximum recursion depth exceeded".
RecursionFuel == Cardinality(Ports) + 1

RECURSIVE PortRead(_, _, _, _)
RECURSIVE SliceRead(_, _, _, _, _)

\* VerilogPort.value (getter)
PortRead(pv, vn, p, fuel) ==
  IF fuel = 0 THEN Raise("RuntimeError")
  ELSE IF ~Truthy(pv[p]) THEN Ret(PyNone)
  ELSE IF pv[p].kind = "net" THEN Ret(vn[pv[p].id].value)
  ELSE SliceRead(pv, vn, pv[p].parent, pv[p].addr, fuel - 1)

\* VerilogSlice.value (getter)
SliceRead(pv, vn, parent, addr, fuel) ==
  LET r == PortRead(pv, vn, parent, fuel) IN
  IF r.exc # "none" THEN r
  ELSE IF r.val = PyNone THEN Raise("TypeError")
  ELSE Ret(Shr(BitAnd(r.val, Shl(1, addr)), addr))

Done(pv, vn) == [exc |-> "none", pv |-> pv, vn |-> vn]
Fail(e, pv, vn) == [exc |-> e, pv |-> pv, vn |-> vn]

\* ValueNode.value (setter) of a node no simulator is attached to: the
\* warning is printed and the value stored.
NodeWriteNoSim(vn, n, v) == [vn EXCEPT ![n].value = v]

RECURSIVE PortWrite(_, _, _, _, _)
RECURSIVE SliceWrite(_, _, _, _, _, _)

\* VerilogPort.value (setter)
PortWrite(pv, vn, p, v, fuel) ==
  IF fuel = 0 THEN Fail("RuntimeError", pv, vn)
  ELSE IF ~Truthy(pv[p])
    THEN Done([pv EXCEPT ![p] = NetRef(Len(vn) + 1)],
              Append(vn, ValueNode(width[p], v)))
  ELSE IF pv[p].kind = "net" THEN Done(pv, NodeWriteNoSim(vn, pv[p].id, v))
  ELSE SliceWrite(pv, vn, pv[p].parent, pv[p].addr, v, fuel - 1)

\* A slice write that assigns the shifted bit instead of merging it.
SliceReplace(old, v, addr) == Shl(v, addr)

\* The value a slice write stores into its parent:
\*   self.parent_ptr.value |= (value << self.addr)
SliceMerge(old, v, addr) == BitOr(old, Shl(v, addr))

\* VerilogSlice.value (setter)
SliceWrite(pv, vn, parent, addr, v, fuel) ==
  LET r == PortRead(pv, vn, parent, fuel) IN
  IF r.exc # "none" THEN Fail(r.exc, pv, vn)
  ELSE IF r.val = PyNone THEN Fail("TypeError", pv, vn)
  ELSE PortWrite(pv, vn, parent, SliceMerge(r.val, v, addr), fuel)

\* ------------------------------------------------------------------ connect

Linked(pv, vn, cn) == [exc |-> "none", pv |-> pv, vn |-> vn, cn |-> cn]
Refused(e, pv, vn, cn) == [exc |-> e, pv |-> pv, vn |-> vn, cn |-> cn]

\* self.connections.append(target); target.connections.append(self)
AppendBoth(cn, a, ea, b, eb) ==
  LET c1 == [cn EXCEPT ![a] = Append(@, eb)] IN
  [c1 EXCEPT ![b] = Append(@, ea)]

\* A constant connection that leaves the new ValueNode at its default value.
ConnectConstDefault(pv, vn, cn, self, v) ==
  [exc |-> "none",
   pv |-> [pv EXCEPT ![self] = NetRef(Len(vn) + 1)],
   vn |-> Append(vn, ValueNode(width[self], 0)),
   cn |-> [cn EXCEPT ![self] = Append(@, VerilogConstant(v, width[self]))]]

\* VerilogPort.connect, target an int: a VerilogConstant joins the
\* connections and a ValueNode holding the constant is installed.
ConnectConst(pv, vn, cn, self, v) ==
  Linked([pv EXCEPT ![self] = NetRef(Len(vn) + 1)],
         Append(vn, ValueNode(width[self], v)),
         [cn EXCEPT ![self] = Append(@, VerilogConstant(v, width[self]))])

\* VerilogPort.connect, target a VerilogSlice (target = parent[addr], whose
\* width is 1): the port's _value becomes the slice itself.
ConnectSlice(pv, vn, cn, self, parent, addr) ==
  IF width[self] # 1 THEN Refused("AssertionError", pv, vn, cn)
  ELSE
    LET cn2 == AppendBoth(cn, self, PortEnd(self), parent, SliceEnd(parent, addr))
        pv1 == [pv EXCEPT ![self] = SliceRef(parent, addr)]
    IN IF Truthy(pv[parent])
         THEN Linked(pv1, vn, cn2)
         ELSE Linked([pv1 EXCEPT ![parent] = NetRef(Len(vn) + 1)],
                     Append(vn, ValueNode(width[parent], 0)), cn2)

\* A port connection that appends to both connection lists before it
\* compares the widths.
ConnectPortAppendFirst(pv, vn, cn, self, target) ==
  LET cn2 == AppendBoth(cn, self, PortEnd(self), target, PortEnd(target)) IN
  IF width[self] # width[target] THEN Refused("AssertionError", pv, vn, cn2)
  ELSE IF Truthy(pv[target])
    THEN Linked([pv EXCEPT ![self] = pv[target]], vn, cn2)
    ELSE LET pv1 == [pv EXCEPT ![self] = NetRef(Len(vn) + 1)] IN
         Linked([pv1 EXCEPT ![target] = pv1[self]],
                Append(vn, ValueNode(width[self], 0)), cn2)

\* VerilogPort.connect, target a VerilogPort: the initiator takes the
\* target's _value when the target has one, else a fresh ValueNode is shared.
ConnectPort(pv, vn, cn, self, target) ==
  IF width[self] # width[target] THEN Refused("AssertionError", pv, vn, cn)
  ELSE
    LET cn2 == AppendBoth(cn, self, PortEnd(self), target, PortEnd(target)) IN
    IF Truthy(pv[target])
      THEN Linked([pv EXCEPT ![self] = pv[target]], vn, cn2)
      ELSE LET pv1 == [pv EXCEPT ![self] = NetRef(Len(vn) + 1)] IN
           Linked([pv1 EXCEPT ![target] = pv1[self]],
                  Append(vn, ValueNode(width[self], 0)), cn2)

\* ----------------------------------------------------- connectivity: actions

NoOp == [op |-> "none", a |-> "", b |-> "", i |-> 0, v |-> 0, exc |-> "none",
         before |-> PyNone, nodes |-> <<>>]

\* The record kept of an operation: its arguments, the exception it ended
\* with, and what the port read and the ValueNodes held just before it.
Op(o, a, b, i, v, e, bf) ==
  [op |-> o, a |-> a, b |-> b, i |-> i, v |-> v, exc |-> e, before |-> bf,
   nodes |-> vnodes]

\* The value a port read returns, or PyNone when the read raises.
Peek(p) == PortRead(port_value, vnodes, p, RecursionFuel).val

Nets == {"clk", "reset", "a", "b", "c", "d"}
Funcs == {"f1", "f2", "f3", "and", "gate", "s1", "s2", "inv",
          "k", "sq", "rflag", "hold"}

\* The bookkeeping before any kernel call.
NoHist == [entry |-> 0, entry_empty |-> FALSE, settles |-> 0, calls |-> 0,
           trig |-> [f \in Funcs |-> 0], done |-> "none", rst_entry |-> 0,
           rst_edges |-> 0, rst_commits |-> 0, pre |-> [n \in Nets |-> 0]]

\* The module hierarchy that is elaborated: top holds two ports, an int
\* and the submodule sub; sub holds a port and a list of a port and a list
\* of one port.
Modules == {"top", "sub"}

\* target.__dict__ before the first elaborate(): the declared members
Members(m) == IF m = "top" THEN {"in_", "out", "sub", "cfg"} ELSE {"x", "xs"}

\* The objects a member can be.
PortObj(id) == [kind |-> "port", id |-> id, items |-> <<>>]
ModuleObj(id) == [kind |-> "module", id |-> id, items |-> <<>>]
ListObj(items) == [kind |-> "list", id |-> "", items |-> items]
OtherObj == [kind |-> "other", id |-> "", items |-> <<>>]

\* target.__dict__[key]
MemberObj(m, key) ==
  CASE key = "in_" -> PortObj("o1")
    [] key = "out" -> PortObj("o2")
    [] key = "sub" -> ModuleObj("sub")
    [] key = "x" -> PortObj("o5")
    [] key = "xs" -> ListObj(<<PortObj("o3"), ListObj(<<PortObj("o4")>>)>>)
    [] OTHER -> OtherObj

\* "%d" % i
Digit(i) == <<"0", "1", "2">>[i + 1]

\* "%s_%d" % (name, i): a name is kept as the sequence of its parts
ItemName(name, i) == Append(name, Digit(i))

\* A module elaborate() was never called on: it has none of the attributes.
NoMod == [calls |-> 0, name |-> <<>>, parent |-> "", ports |-> <<>>,
          submodules |-> <<>>]

NoCall == [op |-> "none", target |-> "", iname |-> <<>>, exc |-> "none"]

\* Nothing is elaborated while ports are connected or a kernel runs.
NoElab ==
  /\ mods = [m \in Modules |-> NoMod]
  /\ attached = {}
  /\ elast = NoCall
  /\ eops = 0

\* No simulator is constructed while the connectivity is exercised.
NoSim ==
  /\ design = "none"
  /\ node = [n \in Nets |-> 0]
  /\ vnode_callbacks = [n \in Nets |-> <<>>]
  /\ event_queue = <<>>
  /\ posedge_clk_fns = <<>>
  /\ rnode_callbacks = <<>>
  /\ num_cycles = 0
  /\ pc = "idle"
  /\ pi = 0
  /\ rst = 0
  /\ hist = NoHist

InitConn ==
  /\ width \in [Ports -> 1..MaxWidth]
  /\ width["p1"] <= width["p2"] /\ width["p2"] <= width["p3"]
  /\ port_value = [p \in Ports |-> NoRef]
  /\ connections = [p \in Ports |-> <<>>]
  /\ vnodes = <<>>
  /\ last = NoOp
  /\ nops = 0
  /\ NoSim
  /\ NoElab

\* a <> b, a.connect(b)
DoConnectPort(a, b) ==
  /\ nops < MaxOps
  /\ LET r == ConnectPort(port_value, vnodes, connections, a, b) IN
     /\ port_value' = r.pv
     /\ vnodes' = r.vn
     /\ connections' = r.cn
     /\ last' = Op("connect", a, b, 0, 0, r.exc, Peek(a))
  /\ nops' = nops + 1
  /\ UNCHANGED <<width, simVars, elabVars>>

\* a <> v, v an int
DoConnectConst(a, v) ==
  /\ nops < MaxOps
  /\ LET r == ConnectConst(port_value, vnodes, connections, a, v) IN
     /\ port_value' = r.pv
     /\ vnodes' = r.vn
     /\ connections' = r.cn
     /\ last' = Op("const", a, "", 0, v, r.exc, Peek(a))
  /\ nops' = nops + 1
  /\ UNCHANGED <<width, simVars, elabVars>>

\* a <> b[i]
DoConnectSlice(a, b, i) ==
  /\ nops < MaxOps
  /\ LET r == ConnectSlice(port_value, vnodes, connections, a, b, i) IN
     /\ port_value' = r.pv
     /\ vnodes' = r.vn
     /\ connections' = r.cn
     /\ last' = Op("cslice", a, b, i, 0, r.exc, Peek(a))
  /\ nops' = nops + 1
  /\ UNCHANGED <<width, simVars, elabVars>>

\* a.value = v
DoPortWrite(a, v) ==
  /\ nops < MaxOps
  /\ LET r == PortWrite(port_value, vnodes, a, v, RecursionFuel) IN
     /\ port_value' = r.pv
     /\ vnodes' = r.vn
     /\ last' = Op("write", a, "", 0, v, r.exc, Peek(a))
  /\ nops' = nops + 1
  /\ UNCHANGED <<width, connections, simVars, elabVars>>

\* a[i].value = v
DoSliceWrite(a, i, v) ==
  /\ nops < MaxOps
  /\ LET r == SliceWrite(port_value, vnodes, a, i, v, RecursionFuel) IN
     /\ port_value' = r.pv
     /\ vnodes' = r.vn
     /\ last' = Op("swrite", a, "", i, v, r.exc, Peek(a))
  /\ nops' = nops + 1
  /\ UNCHANGED <<width, connections, simVars, elabVars>>

NextConn ==
  \/ \E a, b \in Ports : DoConnectPort(a, b)
  \/ \E a \in Ports, v \in 0..MaxVal : DoConnectConst(a, v)
  \/ \E a, b \in Ports : \E i \in 0..(width[b] - 1) : DoConnectSlice(a, b, i)
  \/ \E a \in Ports, v \in 0..MaxVal : DoPortWrite(a, v)
  \/ \E a \in Ports : \E i \in 0..(width[a] - 1), v \in 0..1 : DoSliceWrite(a, i, v)

\* ------------------------------------------- simulation kernel: the models

\* Number of cycle() calls a test bench makes.
MaxCycles == 3
\* Invocations counted within one eval_combinational() pass (the count
\* saturates; the pass itself is not cut short).
MaxCalls == 8
\* Triggers counted per function between two of its executions (saturates).
MaxTrig == 2

\* The registration tables the kernel is constructed on:
\*   chainN  a -> f1 -> b -> f2 -> c -> f3 -> d, the first N stages
\*   and     c = a & b
\*   shift   two registers b, c clocked from input a, cleared by reset, and
\*           d = c gated by reset
\*   osc     b = 1 - b, a function sensitive to the net it writes
\*   stab    b = b, a function sensitive to the net it writes
\*   misc    c = 1 with an empty sensitivity list, b = a with a listed
\*           twice, d = 1 - reset, and one more @combinational function
\*           that has no entry in _newsenses
Designs == {"chain1", "chain2", "chain3", "and", "shift", "osc", "stab", "misc"}

ChainLen(d) ==
  CASE d = "chain1" -> 1 [] d = "chain2" -> 2 [] d = "chain3" -> 3 [] OTHER -> 0

\* model._newsenses: the @combinational functions of the model
CombFuncs(d) ==
  CASE d = "chain1" -> {"f1"}
    [] d = "chain2" -> {"f1", "f2"}
    [] d = "chain3" -> {"f1", "f2", "f3"}
    [] d = "and" -> {"and"}
    [] d = "shift" -> {"gate"}
    [] d = "osc" -> {"inv"}
    [] d = "stab" -> {"hold"}
    [] d = "misc" -> {"k", "sq", "rflag"}
    [] OTHER -> {}

\* comb_funcs: the names DecoratedFunctionVisitor finds decorated with
\* @combinational in the source of the model class
Decorated(d) == IF d = "misc" THEN CombFuncs(d) \cup {"lost"} ELSE CombFuncs(d)

\* the @posedge_clk functions of the model
PosedgeFuncs(d) == IF d = "shift" THEN {"s1", "s2"} ELSE {}

\* the input ports a test bench drives, with the values it writes
Inputs(d) == IF d = "and" THEN {"a", "b"} ELSE {"a"}
InputValues(d) == IF ChainLen(d) > 0 THEN 0..3 ELSE 0..1

\* model._newsenses[f]: the sensitivity list of a combinational function
Sens(f) ==
  CASE f = "f1" -> <<"a">>
    [] f = "f2" -> <<"b">>
    [] f = "f3" -> <<"c">>
    [] f = "and" -> <<"a", "b">>
    [] f = "gate" -> <<"c", "reset">>
    [] f = "inv" -> <<"b">>
    [] f = "hold" -> <<"b">>
    [] f = "sq" -> <<"a", "a">>
    [] f = "rflag" -> <<"reset">>
    [] OTHER -> <<>>

\* the net a function drives
Out(f) ==
  CASE f = "f1" -> "b" [] f = "f2" -> "c" [] f = "f3" -> "d"
    [] f = "and" -> "c" [] f = "gate" -> "d"
    [] f = "s1" -> "b" [] f = "s2" -> "c" [] f = "inv" -> "b"
    [] f = "hold" -> "b" [] f = "k" -> "c" [] f = "sq" -> "b" [] f = "rflag" -> "d"

\* the value a function computes from the current net values
Compute(f, nd) ==
  CASE f = "f1" -> (nd["a"] + 1) % 4
    [] f = "f2" -> 3 - nd["b"]
    [] f = "f3" -> (2 * nd["c"] + 1) % 4
    [] f = "and" -> BitAnd(nd["a"], nd["b"])
    [] f = "gate" -> IF nd["reset"] = 1 THEN 0 ELSE nd["c"]
    [] f = "s1" -> IF nd["reset"] = 1 THEN 0 ELSE nd["a"]
    [] f = "s2" -> IF nd["reset"] = 1 THEN 0 ELSE nd["b"]
    [] f = "inv" -> 1 - nd["b"]
    [] f = "hold" -> nd["b"]
    [] f = "k" -> 1
    [] f = "sq" -> nd["a"]
    [] f = "rflag" -> 1 - nd["reset"]

\* ------------------------------------------------ simulation kernel: steps

Min(a, b) == IF a < b THEN a ELSE b

InQueue(f, q) == \E k \in 1..Len(q) : q[k] = f

\* A scheduling loop without the membership test.
RECURSIVE ScheduleAlways(_, _)
ScheduleAlways(q, funcs) ==
  IF funcs = <<>> THEN q ELSE ScheduleAlways(<<Head(funcs)>> \o q, Tail(funcs))

\* A scheduling loop that appends at the right end of the deque.
RECURSIVE ScheduleRight(_, _)
ScheduleRight(q, funcs) ==
  IF funcs = <<>> THEN q
  ELSE ScheduleRight(IF InQueue(Head(funcs), q) THEN q ELSE Append(q, Head(funcs)),
                     Tail(funcs))

\* add_event's loop over the functions registered for the written node:
\*   if func not in self.event_queue: self.event_queue.appendleft(func)
RECURSIVE Schedule(_, _)
Schedule(q, funcs) ==
  IF funcs = <<>> THEN q
  ELSE Schedule(IF InQueue(Head(funcs), q) THEN q ELSE <<Head(funcs)>> \o q,
                Tail(funcs))

\* An add_event whose lookup of the written node never matches.
AddEventMiss(cb, q, n) == q

\* SimulationTool.add_event
AddEvent(cb, q, n) == Schedule(q, cb[n])

\* how often each function was triggered since it last left the queue
RECURSIVE CountTriggers(_, _)
CountTriggers(tr, funcs) ==
  IF funcs = <<>> THEN tr
  ELSE CountTriggers([tr EXCEPT ![Head(funcs)] = Min(@ + 1, MaxTrig)], Tail(funcs))

\* The kernel state a net write acts on.
Sim(nd, q, tr) == [node |-> nd, queue |-> q, trig |-> tr]

\* A node write that takes the branch without a simulator: value stored,
\* nothing scheduled.
NodeWriteNoEvent(cb, st, n, v) ==
  [node |-> [st.node EXCEPT ![n] = v], queue |-> st.queue, trig |-> st.trig]

\* A node write that schedules only when the value changes.
NodeWriteIfChanged(cb, st, n, v) ==
  IF v = st.node[n] THEN st
  ELSE [node |-> [st.node EXCEPT ![n] = v],
        queue |-> AddEvent(cb, st.queue, n),
        trig |-> CountTriggers(st.trig, cb[n])]

\* ValueNode.value (setter) of a node the simulator is attached to:
\*   self.sim.add_event(self); self._value = value
NodeWrite(cb, st, n, v) ==
  Sim([st.node EXCEPT ![n] = v],
      AddEvent(cb, st.queue, n),
      CountTriggers(st.trig, cb[n]))

\* Calling a combinational function: it writes the value it computes to the
\* net it drives.
Invoke(cb, st, f) == NodeWrite(cb, st, Out(f), Compute(f, st.node))

\* A pop that returns the right end of the deque and leaves it there.
PopRightPeek(q) == [func |-> q[Len(q)], rest |-> q]

\* event_queue.pop(): the right end of the deque
PopRight(q) == [func |-> q[Len(q)], rest |-> SubSeq(q, 1, Len(q) - 1)]

\* One iteration of eval_combinational's loop: pop a function and call it.
EvalStep(cb, st) ==
  LET p == PopRight(st.queue) IN
  Invoke(cb, Sim(st.node, p.rest, [st.trig EXCEPT ![p.func] = 0]), p.func)

\* ------------------------------------------ simulation kernel: construction

\* register_decorated_functions, the loop over one sensitivity list:
\*   self.vnode_callbacks[value_ptr] += [func_ptr]
\*   if func_ptr not in self.event_queue: self.event_queue.appendleft(func_ptr)
RECURSIVE RegisterSignals(_, _, _)
RegisterSignals(reg, f, sens) ==
  IF sens = <<>> THEN reg
  ELSE RegisterSignals(
         [cb |-> [reg.cb EXCEPT ![Head(sens)] = Append(@, f)],
          queue |-> IF InQueue(f, reg.queue) THEN reg.queue ELSE <<f>> \o reg.queue,
          trig |-> [reg.trig EXCEPT ![f] = Min(@ + 1, MaxTrig)]],
         f, Tail(sens))

\* register_decorated_functions, the loop over model._newsenses.items(), in
\* the order the dict yields them
RECURSIVE RegisterAll(_, _)
RegisterAll(reg, order) ==
  IF order = <<>> THEN reg
  ELSE RegisterAll(RegisterSignals(reg, Head(order), Sens(Head(order))), Tail(order))

\* The orders in which a dict or a set of names may be iterated.
Orders(S) ==
  {o \in [1..Cardinality(S) -> S] : \A i, j \in 1..Cardinality(S) : i # j => o[i] # o[j]}

\* The ports of the connectivity runs are not part of the simulated models.
NoConn ==
  /\ width = [p \in Ports |-> 1]
  /\ port_value = [p \in Ports |-> NoRef]
  /\ connections = [p \in Ports |-> <<>>]
  /\ vnodes = <<>>
  /\ last = NoOp
  /\ nops = 0

InitSim ==
  /\ design \in Designs
  /\ node = [n \in Nets |-> 0]
  /\ \E order \in Orders(CombFuncs(design)) :
       LET reg == RegisterAll([cb |-> [n \in Nets |-> <<>>], queue |-> <<>>,
                               trig |-> [f \in Funcs |-> 0]], order)
       IN /\ vnode_callbacks = reg.cb
          /\ event_queue = reg.queue
          /\ hist = [NoHist EXCEPT !.trig = reg.trig]
  /\ posedge_clk_fns \in Orders(PosedgeFuncs(design))
  /\ rnode_callbacks = <<>>
  /\ num_cycles = 0
  /\ pc = "idle"
  /\ pi = 0
  /\ rst = 0
  /\ NoConn
  /\ NoElab

\* ------------------------------------------------ simulation kernel: actions

Now == Sim(node, event_queue, hist.trig)

\* Take over the state a net write or a function call produced.
Commit(st, h) ==
  /\ node' = st.node
  /\ event_queue' = st.queue
  /\ hist' = [h EXCEPT !.trig = st.trig]

\* A reset() that calls cycle() only once.
ResetNextOnce(k) == "deassert"

\* A cycle() that counts only when it found work on the queue.
CountCycleIfBusy(n) == IF hist.entry_empty THEN n ELSE n + 1

\* The position reset() continues at when its cycle() number k has returned:
\* a second self.cycle() after the first, self.model.reset.value = 0 after
\* the second.
ResetNext(k) == IF k = 1 THEN "settle1" ELSE "deassert"

\* self.num_cycles += 1
CountCycle(n) == n + 1

\* Entering cycle(): its first statement is self.eval_combinational().
EnterCycle(h) ==
  [h EXCEPT !.entry = num_cycles, !.entry_empty = (event_queue = <<>>),
            !.settles = 1, !.calls = 0, !.done = "none"]

\* The test bench writes an input port between two kernel calls.
WriteInput(n, v) ==
  /\ pc = "idle"
  /\ Commit(NodeWrite(vnode_callbacks, Now, n, v), [hist EXCEPT !.done = "write"])
  /\ UNCHANGED <<connVars, elabVars, design, vnode_callbacks, posedge_clk_fns, rnode_callbacks,
                 num_cycles, pc, pi, rst>>

\* sim.eval_combinational() called by the test bench
CallEval ==
  /\ pc = "idle"
  /\ pc' = "settle"
  /\ hist' = [hist EXCEPT !.calls = 0, !.done = "none"]
  /\ UNCHANGED <<connVars, elabVars, design, node, vnode_callbacks, event_queue,
                 posedge_clk_fns,
                 rnode_callbacks, num_cycles, pi, rst>>

\* sim.cycle() called by the test bench
CallCycle ==
  /\ pc = "idle"
  /\ num_cycles < MaxCycles
  /\ pc' = "settle1"
  /\ hist' = EnterCycle(hist)
  /\ UNCHANGED <<connVars, elabVars, design, node, vnode_callbacks, event_queue,
                 posedge_clk_fns,
                 rnode_callbacks, num_cycles, pi, rst>>

\* sim.reset() called by the test bench: self.model.reset.value = 1, then
\* the first self.cycle()
CallReset ==
  /\ pc = "idle"
  /\ num_cycles + 2 <= MaxCycles
  /\ pc' = "settle1"
  /\ rst' = 1
  /\ Commit(NodeWrite(vnode_callbacks, Now, "reset", 1),
            [EnterCycle(hist) EXCEPT !.rst_entry = num_cycles,
               !.rst_edges = 0, !.rst_commits = 0,
               !.entry_empty =
                  (NodeWrite(vnode_callbacks, Now, "reset", 1).queue = <<>>)])
  /\ UNCHANGED <<connVars, elabVars, design, vnode_callbacks, posedge_clk_fns, rnode_callbacks,
                 num_cycles, pi>>

\* eval_combinational: while self.event_queue: func = pop(); func()
SettleStep ==
  /\ pc \in {"settle", "settle1", "settle2"}
  /\ event_queue # <<>>
  /\ Commit(EvalStep(vnode_callbacks, Now),
            [hist EXCEPT !.calls = Min(@ + 1, MaxCalls)])
  /\ UNCHANGED <<connVars, elabVars, design, vnode_callbacks, posedge_clk_fns, rnode_callbacks,
                 num_cycles, pc, pi, rst>>

\* An eval_combinational that may return while functions are pending.
SettleDoneAnyTime ==
  /\ pc \in {"settle", "settle1", "settle2"}
  /\ pc' = CASE pc = "settle" -> "idle"
             [] pc = "settle1" -> "clk0"
             [] pc = "settle2" -> "count"
  /\ hist' = IF pc = "settle" THEN [hist EXCEPT !.done = "eval"] ELSE hist
  /\ UNCHANGED <<connVars, elabVars, design, node, vnode_callbacks, event_queue,
                 posedge_clk_fns, rnode_callbacks, num_cycles, pi, rst>>

\* eval_combinational returns once the queue is empty
SettleDone ==
  /\ pc \in {"settle", "settle1", "settle2"}
  /\ event_queue = <<>>
  /\ pc' = CASE pc = "settle" -> "idle"
             [] pc = "settle1" -> "clk0"
             [] pc = "settle2" -> "count"
  /\ hist' = IF pc = "settle" THEN [hist EXCEPT !.done = "eval"] ELSE hist
  /\ UNCHANGED <<connVars, elabVars, design, node, vnode_callbacks, event_queue,
                 posedge_clk_fns,
                 rnode_callbacks, num_cycles, pi, rst>>

\* self.model.clk.value = 0
ClockLow ==
  /\ pc = "clk0"
  /\ pc' = "clk1"
  /\ Commit(NodeWrite(vnode_callbacks, Now, "clk", 0), hist)
  /\ UNCHANGED <<connVars, elabVars, design, vnode_callbacks, posedge_clk_fns, rnode_callbacks,
                 num_cycles, pi, rst>>

\* self.model.clk.value = 1
ClockHigh ==
  /\ pc = "clk1"
  /\ pc' = "posedge"
  /\ pi' = 1
  /\ Commit(NodeWrite(vnode_callbacks, Now, "clk", 1),
            [hist EXCEPT !.pre = NodeWrite(vnode_callbacks, Now, "clk", 1).node])
  /\ UNCHANGED <<connVars, elabVars, design, vnode_callbacks, posedge_clk_fns, rnode_callbacks,
                 num_cycles, rst>>

\* A @posedge_clk function stages the next value of the register it drives.
Stage(staged, f, nd) == Append(staged, [net |-> Out(f), next |-> Compute(f, nd)])

\* reg.clock(): the staged value is written to the register's net.
Clock(cb, st, reg) == NodeWrite(cb, st, reg.net, reg.next)

\* A posedge loop in which each register is clocked as soon as its function
\* has returned.
PosedgeStepImmediate ==
  /\ pc = "posedge"
  /\ pi <= Len(posedge_clk_fns)
  /\ Commit(Clock(vnode_callbacks, Now,
                  [net |-> Out(posedge_clk_fns[pi]),
                   next |-> Compute(posedge_clk_fns[pi], node)]),
            IF rst > 0 THEN [hist EXCEPT !.rst_edges = @ + 1, !.rst_commits = @ + 1]
                       ELSE hist)
  /\ pi' = pi + 1
  /\ UNCHANGED <<connVars, elabVars, design, vnode_callbacks, posedge_clk_fns,
                 rnode_callbacks, num_cycles, pc, rst>>

\* for func in self.posedge_clk_fns: func()
PosedgeStep ==
  /\ pc = "posedge"
  /\ pi <= Len(posedge_clk_fns)
  /\ rnode_callbacks' = Stage(rnode_callbacks, posedge_clk_fns[pi], node)
  /\ pi' = pi + 1
  /\ hist' = IF rst > 0 THEN [hist EXCEPT !.rst_edges = @ + 1] ELSE hist
  /\ UNCHANGED <<connVars, elabVars, design, node, vnode_callbacks, event_queue,
                 posedge_clk_fns,
                 num_cycles, pc, rst>>

PosedgeDone ==
  /\ pc = "posedge"
  /\ pi > Len(posedge_clk_fns)
  /\ pc' = "commit"
  /\ pi' = 0
  /\ UNCHANGED <<connVars, elabVars, design, node, vnode_callbacks, event_queue,
                 posedge_clk_fns,
                 rnode_callbacks, num_cycles, rst, hist>>

\* A commit loop that takes the register staged first.
PopRegFirst(staged) == [reg |-> Head(staged), rest |-> Tail(staged)]

\* self.rnode_callbacks.pop(): the last element of the list
PopReg(staged) ==
  [reg |-> staged[Len(staged)], rest |-> SubSeq(staged, 1, Len(staged) - 1)]

\* while self.rnode_callbacks: reg = self.rnode_callbacks.pop(); reg.clock()
CommitStep ==
  /\ pc = "commit"
  /\ rnode_callbacks # <<>>
  /\ rnode_callbacks' = PopReg(rnode_callbacks).rest
  /\ Commit(Clock(vnode_callbacks, Now, PopReg(rnode_callbacks).reg),
            IF rst > 0 THEN [hist EXCEPT !.rst_commits = @ + 1] ELSE hist)
  /\ UNCHANGED <<connVars, elabVars, design, vnode_callbacks, posedge_clk_fns, num_cycles, pc, pi, rst>>

\* A cycle() without its second eval_combinational().
CommitDoneNoSettle ==
  /\ pc = "commit"
  /\ rnode_callbacks = <<>>
  /\ pc' = "count"
  /\ hist' = [hist EXCEPT !.settles = @ + 1, !.calls = 0]
  /\ UNCHANGED <<connVars, elabVars, design, node, vnode_callbacks, event_queue,
                 posedge_clk_fns, rnode_callbacks, num_cycles, pi, rst>>

\* the commit loop ends; the second self.eval_combinational() starts
CommitDone ==
  /\ pc = "commit"
  /\ rnode_callbacks = <<>>
  /\ pc' = "settle2"
  /\ hist' = [hist EXCEPT !.settles = @ + 1, !.calls = 0]
  /\ UNCHANGED <<connVars, elabVars, design, node, vnode_callbacks, event_queue,
                 posedge_clk_fns,
                 rnode_callbacks, num_cycles, pi, rst>>

\* self.num_cycles += 1, and cycle() returns: to the test bench, or into
\* reset()
CycleReturn ==
  /\ pc = "count"
  /\ num_cycles' = CountCycle(num_cycles)
  /\ IF rst = 0
       THEN /\ pc' = "idle"
            /\ hist' = [hist EXCEPT !.done = "cycle"]
            /\ rst' = 0
       ELSE /\ pc' = ResetNext(rst)
            /\ rst' = IF ResetNext(rst) = "settle1" THEN rst + 1 ELSE rst
            /\ hist' = IF ResetNext(rst) = "settle1"
                         THEN [EnterCycle(hist) EXCEPT !.entry = CountCycle(num_cycles)]
                         ELSE hist
  /\ UNCHANGED <<connVars, elabVars, design, node, vnode_callbacks, event_queue,
                 posedge_clk_fns,
                 rnode_callbacks, pi>>

\* A reset() that lowers the reset net without a scheduler notification.
ResetDeassertQuiet ==
  /\ pc = "deassert"
  /\ pc' = "idle"
  /\ rst' = 0
  /\ Commit(NodeWriteNoEvent(vnode_callbacks, Now, "reset", 0),
            [hist EXCEPT !.done = "reset"])
  /\ UNCHANGED <<connVars, elabVars, design, vnode_callbacks, posedge_clk_fns,
                 rnode_callbacks, num_cycles, pi>>

\* reset(): self.model.reset.value = 0, and reset() returns
ResetDeassert ==
  /\ pc = "deassert"
  /\ pc' = "idle"
  /\ rst' = 0
  /\ Commit(NodeWrite(vnode_callbacks, Now, "reset", 0), [hist EXCEPT !.done = "reset"])
  /\ UNCHANGED <<connVars, elabVars, design, vnode_callbacks, posedge_clk_fns, rnode_callbacks,
                 num_cycles, pi>>

\* eval_combinational: func = self.event_queue.pop(); func() raises. The
\* exception leaves eval_combinational, cycle() and reset() (none of them
\* has a handler) and ends the test bench.
SettleRaise ==
  /\ pc \in {"settle", "settle1", "settle2"}
  /\ event_queue # <<>>
  /\ event_queue' = PopRight(event_queue).rest
  /\ hist' = [hist EXCEPT !.done = "raised", !.trig[PopRight(event_queue).func] = 0]
  /\ pc' = "raised"
  /\ rst' = 0
  /\ UNCHANGED <<connVars, elabVars, design, node, vnode_callbacks, posedge_clk_fns,
                 rnode_callbacks, num_cycles, pi>>

\* cycle: for func in self.posedge_clk_fns: func() raises
PosedgeRaise ==
  /\ pc = "posedge"
  /\ pi <= Len(posedge_clk_fns)
  /\ hist' = [hist EXCEPT !.done = "raised"]
  /\ pc' = "raised"
  /\ pi' = 0
  /\ rst' = 0
  /\ UNCHANGED <<connVars, elabVars, design, node, vnode_callbacks, event_queue,
                 posedge_clk_fns, rnode_callbacks, num_cycles>>

NextSim ==
  \/ \E n \in Inputs(design), v \in InputValues(design) : WriteInput(n, v)
  \/ CallEval
  \/ CallCycle
  \/ CallReset
  \/ SettleStep
  \/ SettleDone
  \/ ClockLow
  \/ ClockHigh
  \/ PosedgeStep
  \/ PosedgeDone
  \/ CommitStep
  \/ CommitDone
  \/ CycleReturn
  \/ ResetDeassert

\* ------------------------------------------------------------- elaboration

\* Number of elaborate() and SimulationTool() calls a test bench makes.
MaxElabOps == 3

RECURSIVE ElaborateModule(_, _, _, _)
RECURSIVE CheckMembers(_, _, _, _)
RECURSIVE CheckItems(_, _, _, _, _, _)
RECURSIVE CheckType(_, _, _, _, _)

\* VerilogModule.elaborate: the name, parent and the three lists are
\* assigned afresh, then every member of __dict__ is classified, in the
\* order ord[m] in which the dict yields the members.
ElaborateModule(ms, m, iname, ord) ==
  CheckMembers([ms EXCEPT ![m] = [calls |-> Min(@.calls + 1, MaxElabOps),
                                  name |-> iname, parent |-> "",
                                  ports |-> <<>>, submodules |-> <<>>]],
               m, ord[m], ord)

\* elaborate(): for name, obj in target.__dict__.items(): check_type(...)
CheckMembers(ms, target, keys, ord) ==
  IF keys = <<>> THEN ms
  ELSE CheckMembers(CheckType(ms, target, <<Head(keys)>>,
                              MemberObj(target, Head(keys)), ord),
                    target, Tail(keys), ord)

\* check_type(): for i, item in enumerate(obj): check_type(target, item_name, item)
CheckItems(ms, target, name, items, i, ord) ==
  IF i >= Len(items) THEN ms
  ELSE CheckItems(CheckType(ms, target, ItemName(name, i), items[i + 1], ord),
                  target, name, items, i + 1, ord)

\* A check_type without the branch for lists.
CheckTypeNoLists(ms, target, name, obj, ord) ==
  IF obj.kind = "port"
    THEN [ms EXCEPT ![target].ports =
            Append(@, [obj |-> obj.id, name |-> name, parent |-> target])]
  ELSE IF obj.kind = "module"
    THEN LET ms1 == ElaborateModule(ms, obj.id, name, ord) IN
         [ms1 EXCEPT ![obj.id].parent = target,
                     ![target].submodules = Append(@, obj.id)]
  ELSE ms

\* VerilogModule.check_type: a port is named, parented and appended to
\* ports; a module is elaborated under the member name, parented and
\* appended to submodules; the items of a list are classified in turn
CheckType(ms, target, name, obj, ord) ==
  IF obj.kind = "port"
    THEN [ms EXCEPT ![target].ports =
            Append(@, [obj |-> obj.id, name |-> name, parent |-> target])]
  ELSE IF obj.kind = "module"
    THEN LET ms1 == ElaborateModule(ms, obj.id, name, ord) IN
         [ms1 EXCEPT ![obj.id].parent = target,
                     ![target].submodules = Append(@, obj.id)]
  ELSE IF obj.kind = "list"
    THEN CheckItems(ms, target, name, obj.items, 0, ord)
  ELSE ms

\* model.is_elaborated()
IsElaborated(ms, m) == ms[m].calls > 0

\* The state a SimulationTool constructor builds.
Tool(e, at, cb, q, pf, tr) ==
  [exc |-> e, attached |-> at, cb |-> cb, queue |-> q, posedge |-> pf, trig |-> tr]

\* A constructor that builds the simulator before it looks at the model.
SimInitBuildFirst(ok, cur, d, order, porder) ==
  LET reg == RegisterAll([cb |-> [n \in Nets |-> <<>>], queue |-> <<>>,
                          trig |-> [f \in Funcs |-> 0]], order)
  IN Tool(IF ok THEN "none" ELSE "Exception", Nets, reg.cb, reg.queue, porder,
          reg.trig)

\* SimulationTool.__init__: raise when the model is not elaborated, else
\* construct_sim(): every node gets its back-reference, the functions are
\* registered and primed.
SimInit(ok, cur, d, order, porder) ==
  IF ~ok THEN [cur EXCEPT !.exc = "Exception"]
  ELSE LET reg == RegisterAll([cb |-> [n \in Nets |-> <<>>], queue |-> <<>>,
                               trig |-> [f \in Funcs |-> 0]], order)
       IN Tool("none", Nets, reg.cb, reg.queue, porder, reg.trig)

\* The orders in which the __dict__ of each module may yield its members.
DictOrders ==
  {ord \in [Modules -> UNION {Orders(Members(k)) : k \in Modules}] :
     \A k \in Modules : ord[k] \in Orders(Members(k))}

InitElab ==
  /\ design \in Designs
  /\ node = [n \in Nets |-> 0]
  /\ vnode_callbacks = [n \in Nets |-> <<>>]
  /\ event_queue = <<>>
  /\ posedge_clk_fns = <<>>
  /\ rnode_callbacks = <<>>
  /\ num_cycles = 0
  /\ pc = "idle"
  /\ pi = 0
  /\ rst = 0
  /\ hist = NoHist
  /\ NoConn
  /\ NoElab

\* m.elaborate(iname)
DoElaborate(m, iname, ord) ==
  /\ eops < MaxElabOps
  /\ mods' = ElaborateModule(mods, m, iname, ord)
  /\ elast' = [op |-> "elaborate", target |-> m, iname |-> iname, exc |-> "none"]
  /\ eops' = eops + 1
  /\ UNCHANGED <<connVars, simVars, attached>>

\* SimulationTool(top)
DoConstruct(order, porder) ==
  /\ eops < MaxElabOps
  /\ LET t == SimInit(IsElaborated(mods, "top"),
                      Tool("none", attached, vnode_callbacks, event_queue,
                           posedge_clk_fns, hist.trig),
                      design, order, porder)
     IN /\ attached' = t.attached
        /\ vnode_callbacks' = t.cb
        /\ event_queue' = t.queue
        /\ posedge_clk_fns' = t.posedge
        /\ hist' = [hist EXCEPT !.trig = t.trig]
        /\ elast' = [op |-> "construct", target |-> "top", iname |-> <<>>,
                     exc |-> t.exc]
  /\ eops' = eops + 1
  /\ UNCHANGED <<connVars, mods, design, node, rnode_callbacks, num_cycles, pc, pi, rst>>

NextElab ==
  \/ \E m \in Modules, iname \in {<<"toplevel">>, <<"dut">>}, ord \in DictOrders :
       DoElaborate(m, iname, ord)
  \/ \E order \in Orders(CombFuncs(design)), porder \in Orders(PosedgeFuncs(design)) :
       DoConstruct(order, porder)

\* ------------------------------------------------------- the specifications

SpecElab == InitElab /\ [][NextElab]_vars

\* The kernel over models whose functions may raise.
NextSimExc ==
  \/ NextSim
  \/ SettleRaise
  \/ PosedgeRaise

SpecSimExc == InitSim /\ [][NextSimExc]_vars

\* The kernel is single-threaded: a loop whose condition holds takes its
\* next iteration, and a loop whose condition fails returns.
SpecSimFair ==
  /\ InitSim /\ [][NextSim]_vars
  /\ WF_vars(SettleStep) /\ WF_vars(SettleDone)


SpecConn == InitConn /\ [][NextConn]_vars

SpecSim == InitSim /\ [][NextSim]_vars

\* ------------------------------------------------- claims on connectivity

\* port q appears in port p's connections list
Adjacent(p, q) ==
  \E k \in 1..Len(connections[p]) : connections[p][k] = PortEnd(q)

RECURSIVE Reach(_, _)
Reach(S, n) ==
  IF n = 0 THEN S
  ELSE Reach(S \cup {q \in Ports : \E p \in S : Adjacent(p, q)}, n - 1)

\* The ports transitively connected to p.
Component(p) == Reach({p}, Cardinality(Ports))

\* Every connect() made so far joined two ports.
OnlyPortConnects ==
  \A p \in Ports : \A k \in 1..Len(connections[p]) :
    connections[p][k].kind = "port"

\* x.value = v, then y.value
WriteThenRead(x, y, v) ==
  LET w == PortWrite(port_value, vnodes, x, v, RecursionFuel) IN
  IF w.exc # "none" THEN Raise(w.exc)
  ELSE PortRead(w.pv, w.vn, y, RecursionFuel)

\* The values a port of width w holds.
InRange(w) == 0..(Pow2(w) - 1)

\* C1: after any sequence of connect(a, b) calls on equal-width ports, all
\* ports of one transitively connected component reference one and the same
\* ValueNode, and a write through any of them is read back through every
\* other one.
C1_OneNetPerComponent ==
  OnlyPortConnects =>
    \A p \in Ports : \A q \in Component(p) :
      /\ port_value[p] = port_value[q]
      /\ \A v \in InRange(width[p]) : WriteThenRead(p, q, v) = Ret(v)

\* C2: immediately after connect(A, B) on two ports of equal width, a value
\* written to A is read from B and a value written to B is read from A,
\* whatever _value either port held before.
C2_ConnectSharesNet ==
  (last.op = "connect" /\ last.exc = "none") =>
    \A v \in InRange(width[last.a]) :
      /\ WriteThenRead(last.a, last.b, v) = Ret(v)
      /\ WriteThenRead(last.b, last.a, v) = Ret(v)

C4_SliceWriteReadBack ==
  (last.op = "swrite" /\ last.exc = "none") =>
    SliceRead(port_value, vnodes, last.a, last.i, RecursionFuel) = Ret(last.v)

\* The ValueNode and the bit of it that bit i of port p is stored in.
RECURSIVE RootBit(_, _, _)
RootBit(p, i, fuel) ==
  IF fuel = 0 \/ ~Truthy(port_value[p]) THEN [node |-> 0, bit |-> 0]
  ELSE IF port_value[p].kind = "net" THEN [node |-> port_value[p].id, bit |-> i]
  ELSE RootBit(port_value[p].parent, port_value[p].addr + i, fuel - 1)

\* Bit positions a ValueNode of the model can hold.
BitPositions == 0..(2 * MaxWidth)

\* C5: writing bit b through port[i] leaves every other bit of the port's
\* ValueNode (and every bit of every other ValueNode) as it was.
C5_SliceWriteFrame ==
  last.op = "swrite" =>
    /\ Len(vnodes) = Len(last.nodes)
    /\ \A n \in 1..Len(vnodes) : \A j \in BitPositions :
         Bit(vnodes[n].value, j) # Bit(last.nodes[n].value, j) =>
           RootBit(last.a, last.i, RecursionFuel) = [node |-> n, bit |-> j]
    /\ \A j \in BitPositions \ {last.i} :
         Bit(Peek(last.a), j) = Bit(last.before, j)

\* C5 witness: bit 0 of a port whose bit 1 is set was written, and bit 1 is
\* still set.
C5_Witness ==
  /\ last.op = "swrite" /\ last.exc = "none" /\ last.i = 0
  /\ width[last.a] >= 2
  /\ Bit(last.before, 1) = 1
  /\ Bit(Peek(last.a), 1) = 1

\* C11: connect(a, b) on a port and a port, or a port and a slice, of
\* different widths raises, and the call leaves both connection lists, both
\* _value references and the ValueNodes as they were.
C11_MismatchRefused ==
  [][ /\ (last'.op = "connect" /\ width[last'.a] # width[last'.b])
           => last'.exc = "AssertionError"
      /\ (last'.op = "cslice" /\ width[last'.a] # 1)
           => last'.exc = "AssertionError"
      /\ (last'.op \in {"connect", "cslice"} /\ last'.exc # "none")
           => /\ connections' = connections
              /\ port_value' = port_value
              /\ vnodes' = vnodes ]_vars

\* C11 witness: a port that already shares a ValueNode with a peer was
\* connected to a wider port; the call raised and the port still has its one
\* connection and its ValueNode.
C11_Witness ==
  /\ last.op = "connect" /\ last.exc = "AssertionError"
  /\ width[last.a] # width[last.b]
  /\ Len(connections[last.a]) = 1
  /\ port_value[last.a].kind = "net"
  /\ connections[last.b] = <<>> /\ ~Truthy(port_value[last.b])

\* C14: a write to a port, or to a slice of a port, whose _value is None
\* raises; it allocates no ValueNode and leaves the port without one.
C14_DanglingWriteReported ==
  [][ (/\ last'.op \in {"write", "swrite"}
       /\ nops' = nops + 1
       /\ ~Truthy(port_value[last'.a]))
        => /\ last'.exc # "none"
           /\ vnodes' = vnodes
           /\ port_value' = port_value ]_vars

\* C24: every ValueNode holds an unsigned value below 2^width of the node.
C24_ValueWithinWidth ==
  \A n \in 1..Len(vnodes) : vnodes[n].value \in InRange(vnodes[n].width)

\* ------------------------------------------------- claims on elaboration

\* The modules elaborate(m) visits: m and the modules declared below it.
Subtree(m) == IF m = "top" THEN {"top", "sub"} ELSE {m}

\* C12: an elaborate() call on a module that was elaborated before, itself
\* or as a submodule reached by the recursion, raises and leaves the ports
\* and submodules lists of every module as they were.
C12_SecondElaborateRejected ==
  [][ (/\ elast'.op = "elaborate"
       /\ eops' = eops + 1
       /\ \E m \in Subtree(elast'.target) : mods[m].calls > 0)
        => /\ elast'.exc # "none"
           /\ \A m \in Modules :
                /\ mods'[m].ports = mods[m].ports
                /\ mods'[m].submodules = mods[m].submodules ]_vars

\* C13: SimulationTool(model) on a model that is not elaborated raises, and
\* then no node has a back-reference to a simulator, no function is
\* registered and the event queue is empty.
C13_UnelaboratedRefused ==
  /\ (~IsElaborated(mods, "top") \/ (elast.op = "construct" /\ elast.exc # "none"))
       => /\ attached = {}
          /\ vnode_callbacks = [n \in Nets |-> <<>>]
          /\ posedge_clk_fns = <<>>
          /\ event_queue = <<>>
  /\ (elast.op = "construct" /\ ~IsElaborated(mods, "top"))
       => elast.exc = "Exception"
  /\ (elast.op = "construct" /\ IsElaborated(mods, "top"))
       => elast.exc = "none" /\ attached = Nets

\* C13 witness: the constructor raised on a model whose submodule alone was
\* elaborated, and the kernel state is empty.
C13_Witness ==
  /\ elast.op = "construct" /\ elast.exc = "Exception"
  /\ mods["sub"].calls > 0 /\ mods["top"].calls = 0
  /\ CombFuncs(design) # {} /\ event_queue = <<>> /\ attached = {}

\* The ports elaborate() is to list for module m, named and parented.
ExpectedPorts(m) ==
  IF m = "top"
    THEN {[obj |-> "o1", name |-> <<"in_">>, parent |-> "top"],
          [obj |-> "o2", name |-> <<"out">>, parent |-> "top"]}
    ELSE {[obj |-> "o5", name |-> <<"x">>, parent |-> "sub"],
          [obj |-> "o3", name |-> <<"xs", "0">>, parent |-> "sub"],
          [obj |-> "o4", name |-> <<"xs", "1", "0">>, parent |-> "sub"]}

\* The submodules of module m.
ExpectedSubmodules(m) == IF m = "top" THEN {"sub"} ELSE {}

\* The elements of a list.
Elements(q) == {q[k] : k \in 1..Len(q)}

\* C25: after elaborate(root, name) every module of the hierarchy lists
\* exactly its port members, those inside nested lists included, each once,
\* parented to it and named after the member (n_i for item i of list n);
\* it lists exactly its module members, each elaborated under its member
\* name and parented to it; the root has the given name and no parent.
C25_ElaborateBuildsHierarchy ==
  elast.op = "elaborate" =>
    /\ mods[elast.target].name = elast.iname
    /\ mods[elast.target].parent = ""
    /\ \A m \in Subtree(elast.target) :
         /\ Elements(mods[m].ports) = ExpectedPorts(m)
         /\ Len(mods[m].ports) = Cardinality(ExpectedPorts(m))
         /\ Elements(mods[m].submodules) = ExpectedSubmodules(m)
         /\ Len(mods[m].submodules) = Cardinality(ExpectedSubmodules(m))
         /\ \A c \in ExpectedSubmodules(m) :
              mods[c].name = <<c>> /\ mods[c].parent = m

\* C25 witness: top was elaborated as "dut", and its submodule lists the
\* port found in the inner list before the port declared directly.
C25_Witness ==
  /\ elast.op = "elaborate" /\ elast.target = "top"
  /\ mods["top"].name = <<"dut">>
  /\ Len(mods["sub"].ports) = 3
  /\ mods["sub"].ports[2].name = <<"xs", "1", "0">>
  /\ mods["sub"].ports[3].obj = "o5"

\* ------------------------------------------------ claims on the kernel

\* C6: every cycle() that returns has run two eval_combinational passes and
\* leaves num_cycles exactly 1 above its value at the call, also when the
\* queue was empty at the call; no other step changes num_cycles.
C6_CycleCountsOnce ==
  [][ /\ (pc = "count" =>
            /\ num_cycles' = hist.entry + 1
            /\ hist.settles = 2)
      /\ (pc # "count" => num_cycles' = num_cycles)
      /\ (pc \in {"settle1", "clk0", "clk1", "posedge", "commit", "settle2", "count"}
            => num_cycles = hist.entry) ]_vars

\* C6 witness: a cycle() called with an empty queue right after an earlier
\* call has returned, counted once after two passes.
C6_Witness ==
  /\ pc = "idle" /\ hist.done = "cycle"
  /\ hist.entry_empty /\ hist.settles = 2
  /\ num_cycles >= 2 /\ num_cycles = hist.entry + 1

\* C7: reset() holds the reset net at 1 from its first statement through
\* both of its cycles, so at every edge-function call and register commit
\* of them, runs exactly two complete cycles, and returns with reset at 0.
C7_ResetTwoCycles ==
  /\ (rst > 0 => /\ node["reset"] = 1
                 /\ rst \in 1..2
                 /\ num_cycles = hist.rst_entry + (IF pc = "deassert" THEN 2 ELSE rst - 1))
  /\ ((pc = "idle" /\ hist.done = "reset") =>
        /\ node["reset"] = 0
        /\ num_cycles = hist.rst_entry + 2
        /\ hist.rst_edges = 2 * Cardinality(PosedgeFuncs(design))
        /\ hist.rst_commits = 2 * Cardinality(PosedgeFuncs(design)))

\* C7 witness: reset() has returned on the two-register model after four
\* edge-function calls and four commits.
C7_Witness ==
  /\ design = "shift" /\ pc = "idle" /\ hist.done = "reset"
  /\ hist.rst_commits = 4 /\ hist.rst_edges = 4
  /\ node["reset"] = 0

ChainOrder == <<"f1", "f2", "f3">>

\* f_k(x)
ApplyStage(k, x) == Compute(ChainOrder[k], [n \in Nets |-> x])

\* f_k(...f_1(x)...)
RECURSIVE Composition(_, _)
Composition(k, x) == IF k = 0 THEN x ELSE ApplyStage(k, Composition(k - 1, x))

\* C8: on a chain f1 -> ... -> fN every eval_combinational pass ends after
\* at most N(N+1)/2 calls, and whenever the queue is empty the output net of
\* fN holds fN(...f1(input)...).
C8_ChainConverges ==
  ChainLen(design) > 0 =>
    /\ 2 * hist.calls <= ChainLen(design) * (ChainLen(design) + 1)
    /\ event_queue = <<>> =>
         node[Out(ChainOrder[ChainLen(design)])] = Composition(ChainLen(design), node["a"])

\* C8 witness: a pass over the three-stage chain that made three or more
\* calls has returned with the output following a non-zero input.
C8_Witness ==
  /\ design = "chain3" /\ pc = "idle" /\ hist.done = "eval"
  /\ hist.calls >= 3 /\ event_queue = <<>>
  /\ node["a"] = 2 /\ node["d"] = Composition(3, 2)

Occurrences(f, q) == Cardinality({k \in 1..Len(q) : q[k] = f})

\* C9: a function is on the event queue exactly once when it was triggered
\* (once or several times) since it last left the queue and not at all
\* otherwise; the two-input function runs at most once per pass.
C9_QueueHoldsEachOnce ==
  /\ \A f \in Funcs :
       Occurrences(f, event_queue) = (IF hist.trig[f] > 0 THEN 1 ELSE 0)
  /\ design = "and" => hist.calls <= 1

\* C9 witness: after a first cycle, writes to both inputs triggered the
\* two-input function twice and it is queued once.
C9_Witness ==
  /\ design = "and" /\ num_cycles >= 1 /\ pc = "idle"
  /\ hist.trig["and"] = 2 /\ event_queue = <<"and">>

\* C10: whenever the queue is empty, C = A AND B.
C10_AndGate ==
  (design = "and" /\ event_queue = <<>>) =>
    node["c"] = BitAnd(node["a"], node["b"])

\* C10 witness: eval_combinational has returned with A = 1, B = 1, C = 1.
C10_Witness ==
  /\ design = "and" /\ pc = "idle" /\ hist.done = "eval"
  /\ node["a"] = 1 /\ node["b"] = 1 /\ node["c"] = 1

\* C15: every eval_combinational pass returns, whatever the registration
\* table, a function that re-triggers itself included.
C15_SettleReturns ==
  (pc \in {"settle", "settle1", "settle2"}) ~> (pc \notin {"settle", "settle1", "settle2"})

\* q ends with the sequence t
EndsWith(q, t) ==
  /\ Len(t) <= Len(q)
  /\ SubSeq(q, Len(q) - Len(t) + 1, Len(q)) = t

\* C16: a pass invokes the most recently scheduled pending function first:
\* each iteration takes the function at the left end of the queue, where
\* add_event put the latest one, and leaves the functions scheduled
\* earlier pending behind whatever the call schedules.
C16_MostRecentFirst ==
  [][ (pc \in {"settle", "settle1", "settle2"} /\ event_queue # <<>>)
        => EndsWith(event_queue', Tail(event_queue)) ]_vars

\* The function of the model that stages register record r from the nets nd.
StagedFrom(r, nd) ==
  \E f \in PosedgeFuncs(design) : Out(f) = r.net /\ r.next = Compute(f, nd)

C18_LowPhaseSettle ==
  /\ (pc = "settle1" /\ event_queue # <<>>) => node["clk"] = 0
  /\ pc \in {"clk0", "clk1"} => event_queue = <<>>

\* The @posedge_clk functions in the order the model class declares them.
Declared(d) == IF d = "shift" THEN <<"s1", "s2">> ELSE <<>>

\* C19: in every cycle() the edge functions run with the clock net at 1,
\* each once, in the order the model declares them.
C19_EdgeInDeclaredOrder ==
  /\ pc = "posedge" =>
       /\ node["clk"] = 1
       /\ Len(rnode_callbacks) = pi - 1
       /\ \A k \in 1..Len(rnode_callbacks) :
            rnode_callbacks[k].net = Out(Declared(design)[k])
  /\ pc = "commit" => pi = 0 /\ Len(rnode_callbacks) <= Len(Declared(design))

\* C20: every register staged in the edge phase is committed once, the last
\* staged first, and no register is staged outside the edge and commit
\* phases: the list is empty when the post-commit pass starts and when
\* cycle() returns.
C20_CommitsReverseOrder ==
  /\ [](/\ pc \notin {"posedge", "commit"} => rnode_callbacks = <<>>
        /\ pc = "posedge" => Len(rnode_callbacks) = pi - 1)
  /\ [][ (pc = "commit" /\ rnode_callbacks # <<>>) =>
           /\ rnode_callbacks' = SubSeq(rnode_callbacks, 1, Len(rnode_callbacks) - 1)
           /\ node' = [node EXCEPT ![rnode_callbacks[Len(rnode_callbacks)].net] =
                                     rnode_callbacks[Len(rnode_callbacks)].next] ]_vars

\* C20 witness: of the two registers staged, the one staged last has been
\* committed and the one staged first is still pending.
C20_Witness ==
  /\ design = "shift" /\ pc = "commit" /\ node["reset"] = 0
  /\ posedge_clk_fns = <<"s1", "s2">>
  /\ Len(rnode_callbacks) = 1 /\ rnode_callbacks[1].net = "b"
  /\ hist.pre["b"] = 1 /\ node["c"] = 1 /\ hist.pre["c"] = 0
  /\ rnode_callbacks[1].next = 0 /\ node["b"] = 1

\* ---------------------------------------------- claims on construction

\* SimulationTool(model) has just returned normally.
Constructed == elast.op = "construct" /\ elast.exc = "none"

\* C21: right after construction every function registered in _newsenses
\* is on the event queue exactly once, whatever its sensitivity list.
C21_AllPrimed ==
  Constructed =>
    \A f \in CombFuncs(design) : Occurrences(f, event_queue) = 1

\* C22: construction raises when the model class declares a @combinational
\* function that has no sensitivity list registered; no kernel is built
\* without it.
C22_MissingSensitivityRefused ==
  (elast.op = "construct" /\ IsElaborated(mods, "top")
     /\ Decorated(design) # CombFuncs(design))
    => elast.exc # "none"

\* C23: in vnode_callbacks no function is listed twice for one node.
C23_RegistryNoDuplicates ==
  \A n \in Nets : \A i, j \in 1..Len(vnode_callbacks[n]) :
    i # j => vnode_callbacks[n][i] # vnode_callbacks[n][j]

\* ------------------------------------------- claims on the kernel's runs

\* How many of the kernel's own steps can be taken in the current state.
KernelChoices ==
  LET One(b) == IF b THEN 1 ELSE 0 IN
    One(ENABLED SettleStep) + One(ENABLED SettleDone) + One(ENABLED ClockLow)
  + One(ENABLED ClockHigh) + One(ENABLED PosedgeStep) + One(ENABLED PosedgeDone)
  + One(ENABLED CommitStep) + One(ENABLED CommitDone) + One(ENABLED CycleReturn)
  + One(ENABLED ResetDeassert)

\* A call of the test bench can be made in the current state.
CallPossible ==
  \/ ENABLED CallEval \/ ENABLED CallCycle \/ ENABLED CallReset
  \/ \E n \in Inputs(design), v \in InputValues(design) : ENABLED WriteInput(n, v)

C27_RaisePropagates ==
  /\ [](pc = "raised" => ~ENABLED NextSimExc)
  /\ [][ (pc' = "raised") =>
        /\ num_cycles' = num_cycles
        /\ pc # "settle" => num_cycles = hist.entry
        /\ node' = node
        /\ rnode_callbacks' = rnode_callbacks
        /\ pc = "posedge" => event_queue' = event_queue
        /\ pc # "posedge" =>
             /\ event_queue' = SubSeq(event_queue, 1, Len(event_queue) - 1)
             /\ hist'.trig[event_queue[Len(event_queue)]] = 0 ]_vars

\* C27 witness: the second edge function of the two-register model raised
\* in the first cycle; the register the first one staged is still staged
\* and no cycle was counted.
C27_Witness ==
  /\ design = "shift" /\ pc = "raised" /\ hist.done = "raised"
  /\ Len(rnode_callbacks) = 1 /\ num_cycles = 0

\* C28: when cycle() is about to return and when it has returned, the
\* event queue is empty, no register is staged and no function triggered
\* during the call is still waiting to run.
C28_CycleLeavesNothingPending ==
  (pc = "count" \/ (pc = "idle" /\ hist.done = "cycle")) =>
    /\ event_queue = <<>>
    /\ rnode_callbacks = <<>>
    /\ \A f \in Funcs : hist.trig[f] = 0

\* C28 witness: a cycle of the two-register model returns after its second
\* register was committed to 1 and the function the commit triggered ran.
C28_Witness ==
  /\ design = "shift" /\ pc = "count" /\ node["reset"] = 0
  /\ node["c"] = 1 /\ hist.pre["c"] = 0 /\ node["d"] = 1
  /\ hist.calls >= 1

\* the functions whose sensitivity list names net n
SensitiveTo(n) ==
  {f \in CombFuncs(design) : \E k \in 1..Len(Sens(f)) : Sens(f)[k] = n}

\* C29: when reset() has returned, every function sensitive to the reset
\* net is on the event queue, not yet called, and the net it drives holds
\* the value the function computes with reset = 1.
C29_ResetLeavesPending ==
  (pc = "idle" /\ hist.done = "reset") =>
    \A f \in SensitiveTo("reset") :
      /\ InQueue(f, event_queue)
      /\ hist.trig[f] > 0
      /\ node[Out(f)] = Compute(f, [node EXCEPT !["reset"] = 1])

\* C29 witness: reset() has returned on the model with d = 1 - reset; d is
\* still 0 although reset is 0, and the function is pending.
C29_Witness ==
  /\ design = "misc" /\ pc = "idle" /\ hist.done = "reset"
  /\ node["reset"] = 0 /\ node["d"] = 0
  /\ InQueue("rflag", event_queue)

\* C30: a write schedules the functions of the net also when it stores the
\* value the net already holds, and a function being called is off the
\* queue: the two-input function is pending after every input write, and
\* a function sensitive to the net it writes is pending again after each
\* of its calls, its value stable or not, so that no pass over it returns.
C30_SelfTriggerNeverDrains ==
  /\ [](design \in {"stab", "osc"} =>
          /\ event_queue # <<>>
          /\ hist.done \notin {"eval", "cycle", "reset"})
  /\ [][ /\ (design = "stab" /\ pc \in {"settle", "settle1", "settle2"})
             => node' = node /\ event_queue' = <<"hold">>
         /\ (design = "and" /\ pc = "idle" /\ pc' = "idle")
             => event_queue' = <<"and">> ]_vars

\* C30 witness: a pass over b = b has made every call the count can hold
\* and the function is pending once more.
C30_Witness ==
  /\ design = "stab" /\ pc = "settle" /\ hist.calls = MaxCalls
  /\ event_queue = <<"hold">> /\ node["b"] = 0

\* The effect a write of v to net n has in the current state.
WriteEffect(n, v) == NodeWrite(vnode_callbacks, Now, n, v)

\* C31: in every state a write to any net stores the value in that net
\* alone and leaves the pending functions in their order, putting those
\* registered on the net and not yet pending in front of them, and none
\* when the net has no function; the steps that are a net write (by the
\* test bench, of the clock, of reset) call no function and leave the cycle
\* count, the registry and the staged registers as they were.
C31_WriteOnlySchedules ==
  /\ [](\A n \in Nets, v \in 0..MaxVal :
          LET r == WriteEffect(n, v)
              added == Len(r.queue) - Len(event_queue)
          IN /\ r.node = [node EXCEPT ![n] = v]
             /\ EndsWith(r.queue, event_queue)
             /\ \A k \in 1..added :
                  /\ r.queue[k] \in Elements(vnode_callbacks[n])
                  /\ ~InQueue(r.queue[k], event_queue)
             /\ \A f \in Elements(vnode_callbacks[n]) : InQueue(f, r.queue)
             /\ vnode_callbacks[n] = <<>> => r.queue = event_queue)
  /\ [][ (pc \in {"clk0", "clk1", "deassert"} \/ (pc = "idle" /\ pc' = "idle")) =>
           /\ \E n \in Nets : node' = [node EXCEPT ![n] = node'[n]]
           /\ EndsWith(event_queue', event_queue)
           /\ hist'.calls = hist.calls
           /\ num_cycles' = num_cycles
           /\ vnode_callbacks' = vnode_callbacks
           /\ rnode_callbacks' = rnode_callbacks ]_vars

\* C31 witness: with the function of the reset net pending after reset(),
\* the test bench wrote input a: its function was put in front, nothing ran
\* (b and d are as reset left them).
C31_Witness ==
  /\ design = "misc" /\ pc = "idle" /\ hist.done = "write"
  /\ event_queue = <<"sq", "rflag">>
  /\ node["a"] = 1 /\ node["b"] = 0 /\ node["d"] = 0
  /\ num_cycles = 2

====
